---- MODULE Spec2Model ----
(***************************************************************************)
(* NotebookEditor (vs/workbench/contrib/notebook/browser/notebookEditor.ts)*)
(* as a state machine: the pane's fields, the widget pool and the view     *)
(* state memento it talks to, and one action per method.  The async        *)
(* setInput is cut at each of its three awaits into four steps.            *)
(***************************************************************************)
EXTENDS Integers, Sequences, FiniteSets

\* ---------------------------------------------------------------- bounds
NumGroups == 1       \* editor groups the pane can be shown in
MaxBlob   == 1       \* view-state blobs 0..MaxBlob, 0 is a widget's initial one
MaxDim    == 1       \* pane dimensions 1..MaxDim
MaxCalls  == 2       \* setInput calls in flight at the same time

\* ---------------------------------------------------------------- values
NoGroup == 0
Groups  == 1..NumGroups
Uris    == {"u1", "u2"}
NoUri   == "none"
NotebookInputs == {"A", "A2", "B"}     \* A and A2 are two inputs of one resource
OpenedInputs   == {"A", "B"}           \* the inputs the pane is given
OtherInputs    == {"T"}                \* an editor input that is no notebook
NoInput == "none"
Keys    == Groups \X Uris
NoKey   == <<>>
Blobs   == 0..MaxBlob
NoState == -1
Dims    == 1..MaxDim
NoDim   == 0
NoCall  == 0

VARIABLES
    input,                  \* BaseEditor._input
    group,                  \* BaseEditor._group
    _widget,                \* the borrow value: the borrowed widget and its key
    dimension,              \* this.dimension
    _widgetDisposableStore, \* the per-widget subscriptions, in order of adding
    editorMemento,          \* (group, resource) -> saved view state
    leases,                 \* the pool's count of widgets retrieved and not hidden
    calls,                  \* the setInput calls in flight
    disposed,               \* dispose() has run
    last                    \* what the latest step did (history)

vars == <<input, group, _widget, dimension, _widgetDisposableStore,
          editorMemento, leases, calls, disposed, last>>

\* `this.editorGroupService instanceof EditorPart`: the service is injected
\* once, and the one the workbench registers is its EditorPart
isEditorPart == TRUE

\* NotebookEditorInput.resource
resource(i) == IF i = "B" THEN "u2" ELSE "u1"

\* editor instanceof NotebookEditorInput
isNotebookEditorInput(i) == i \in NotebookInputs

\* ---------------------------------------------------------------- widget
\* { value: undefined }, the borrow value the pane starts with
NoWidget == [key |-> NoKey, viewModel |-> NoUri, viewState |-> 0, leased |-> FALSE]

\* the states the pool's widget for a key can be in when it is retrieved:
\* freshly created, or recycled with the document and view state it was left with
PoolWidgets ==
    {[viewModel |-> NoUri, viewState |-> 0]}
       \cup {[viewModel |-> u, viewState |-> b] : u \in Uris, b \in Blobs}

\* NotebookEditorWidget.getEditorViewState()
getEditorViewState(w) == w.viewState

\* NotebookEditorWidget.onWillHide(): the widget is told it is no longer shown
widgetOnWillHide(w) == [w EXCEPT !.leased = FALSE]

\* NotebookEditorWidget.setModel(notebook, viewState, options)
widgetSetModel(w, uri, viewState) ==
    [w EXCEPT !.viewModel = uri,
              !.viewState = IF viewState = NoState THEN 0 ELSE viewState]

\* INotebookEditorWidgetService.retrieveWidget(group, input): the widget of
\* (group, input.resource), in the state pw the pool has it in
retrieveWidget(g, i, pw) ==
    [key |-> <<g, resource(i)>>, viewModel |-> pw.viewModel,
     viewState |-> pw.viewState, leased |-> TRUE]

\* ---------------------------------------------------------------- memento
\* IEditorMemento.saveEditorState(group, resource, state)
saveEditorState(memento, g, uri, state) == [memento EXCEPT ![<<g, uri>>] = state]

\* IEditorMemento.loadEditorState(group, resource)
loadEditorState(memento, g, uri) == memento[<<g, uri>>]

\* saveEditorViewState with the save left out
saveEditorViewState_unsaved(i) == [memento |-> editorMemento, wrote |-> NoKey]

\* saveEditorViewState(input): the memento after it, and the key it wrote
saveEditorViewState(i) ==
    IF group # NoGroup /\ _widget # NoWidget
    THEN [memento |-> saveEditorState(editorMemento, group, resource(i),
                                      getEditorViewState(_widget)),
          wrote   |-> <<group, resource(i)>>]
    ELSE [memento |-> editorMemento, wrote |-> NoKey]

\* loadTextEditorViewState that finds nothing
loadTextEditorViewState_nothing(i) == [state |-> NoState, read |-> NoKey]

\* loadTextEditorViewState(input): the state loaded, and the key it read
loadTextEditorViewState(i) ==
    IF group # NoGroup
    THEN [state |-> loadEditorState(editorMemento, group, resource(i)),
          read  |-> <<group, resource(i)>>]
    ELSE [state |-> NoState, read |-> NoKey]

\* ---------------------------------------------------------------- calls
\* a setInput call in flight: the await it is suspended at, its input and the
\* group it captured on entry.  Its token is not part of it: setInput hands
\* the token to super.setInput and never reads it, so signalling the token
\* changes nothing the pane can see
NewCall(i, g) == [pc |-> "super", input |-> i, group |-> g]

\* the calls in flight without the c-th, which has returned
Returned(cs, c) == [n \in 1..(Len(cs) - 1) |-> IF n < c THEN cs[n] ELSE cs[n + 1]]

\* the calls that are suspended at `await input.resolve(...)`
Resolving == {n \in 1..Len(calls) : calls[n].pc = "resolve"}

\* ---------------------------------------------------------------- history
\* what one step did; every step starts from this and fills in its part
NoEffect == [op |-> "init", call |-> NoCall, arg |-> NoInput,
             prev |-> NoKey, wrote |-> NoKey, read |-> NoKey,
             installed |-> NoKey, vs |-> NoState,
             hid |-> NoKey, borrowed |-> NoKey,
             released |-> FALSE, fwd |-> NoDim, prompts |-> 0, subs |-> 0,
             model |-> "none", resolving |-> {},
             cancelled |-> FALSE, superseded |-> FALSE,
             attached |-> FALSE, held |-> NoState, hidden |-> NoState,
             again |-> FALSE, size |-> NoDim, early |-> {}]

\* ---------------------------------------------------------------- state
Init ==
    /\ input = NoInput
    /\ group = NoGroup
    /\ _widget = NoWidget
    /\ dimension = NoDim
    /\ _widgetDisposableStore = <<>>
    /\ editorMemento = [k \in Keys |-> NoState]
    /\ leases = 0
    /\ calls = <<>>
    /\ disposed = FALSE
    /\ last = NoEffect

\* setEditorVisible(visible, group): the pane is placed in a group; a call
\* with the group it is in already changes nothing of the state kept here
setEditorVisible(g) ==
    /\ ~ disposed
    /\ group # g
    /\ group' = g
    /\ last' = [NoEffect EXCEPT !.op = "setEditorVisible"]
    /\ UNCHANGED <<input, _widget, dimension, _widgetDisposableStore,
                   editorMemento, leases, calls, disposed>>

\* the save without the test of the input: the view state of the borrowed
\* widget goes under the key the widget was retrieved for
saveCurrent_anyInput ==
    IF group # NoGroup /\ _widget # NoWidget
    THEN [memento |-> [editorMemento EXCEPT ![_widget.key] = getEditorViewState(_widget)],
          wrote   |-> _widget.key]
    ELSE [memento |-> editorMemento, wrote |-> NoKey]

\* what a method that saves the view state of the current input does to the
\* memento: `if (this.input instanceof NotebookEditorInput) save(this.input)`
saveCurrent ==
    IF isNotebookEditorInput(input)
    THEN saveEditorViewState(input)
    ELSE [memento |-> editorMemento, wrote |-> NoKey]

\* setInput, from its entry to `await super.setInput(...)`
setInput(i) ==
    /\ ~ disposed
    /\ group # NoGroup
    /\ Len(calls) < MaxCalls
    /\ editorMemento' = saveCurrent.memento
    /\ input' = i
    /\ calls' = Append(calls, NewCall(i, group))
    /\ last' = [NoEffect EXCEPT
                   !.op = "setInput", !.call = Len(calls) + 1, !.arg = i,
                   !.prev = IF input # NoInput /\ _widget # NoWidget
                            THEN <<group, resource(input)>> ELSE NoKey,
                   !.wrote = saveCurrent.wrote,
                   !.resolving = Resolving,
                   !.attached = /\ input # NoInput
                                /\ _widget.viewModel = resource(input)
                                /\ _widget.leased
                                /\ _widgetDisposableStore # <<>>
                                /\ calls = <<>>,
                   !.held = editorMemento[<<group, resource(i)>>],
                   !.hidden = IF last.op = "onWillHide"
                                 /\ last.wrote # NoKey /\ i = input
                              THEN editorMemento[last.wrote]
                              ELSE NoState]
    /\ UNCHANGED <<group, _widget, dimension, _widgetDisposableStore,
                   leases, disposed>>

\* the part of the history that follows one call through its steps, kept
\* only while nothing else happens in between
Carried(c, field) ==
    IF last.call = c /\ last.op \in {"setInput", "borrow"}
    THEN last[field] ELSE NoEffect[field]

\* whether the token of call c was signalled just before this step of it
JustCancelled(c) == last.op = "cancel" /\ last.call = c

\* whether a setInput or clearInput was issued just before this step of call
\* c, while c was suspended at `await input.resolve(...)`
JustSuperseded(c) == last.op \in {"setInput", "clearInput"} /\ c \in last.resolving

\* the borrowed widget is not hidden
hideBorrowed_skipped == [widget |-> _widget, leases |-> leases]

\* `if (this._widget.value) { this._widget.value.onWillHide(); }`: the borrow
\* value after it, and the leases the pool counts after it
hideBorrowed ==
    IF _widget # NoWidget
    THEN [widget |-> widgetOnWillHide(_widget),
          leases |-> IF _widget.leased THEN leases - 1 ELSE leases]
    ELSE [widget |-> _widget, leases |-> leases]

\* calls resuming from `await super.setInput(...)` in any order
resumesInOrder_any(c) == TRUE

\* `await super.setInput(...)` awaits a method that assigns the input and
\* awaits nothing itself: the calls suspended there resume in the order they
\* were made, so call c resumes when no earlier call is still suspended there
resumesInOrder(c) == \A n \in 1..(c - 1) : calls[n].pc # "super"

\* the retrieved widget is given no layout
initialLayout_none == NoDim

\* `if (this.dimension) { this._widget.value!.layout(this.dimension, ...); }`:
\* the dimension the retrieved widget is laid out with, NoDim for no layout
initialLayout == IF dimension # NoDim THEN dimension ELSE NoDim

\* setInput, from `this._widgetDisposableStore.clear()` to `await input.resolve(...)`
setInputBorrow(c, pw) ==
    /\ c \in 1..Len(calls)
    /\ calls[c].pc = "super"
    /\ resumesInOrder(c)
    /\ _widgetDisposableStore' = <<>>
    /\ _widget' = retrieveWidget(calls[c].group, calls[c].input, pw)
    /\ leases' = hideBorrowed.leases + 1
    /\ calls' = [calls EXCEPT ![c].pc = "resolve"]
    /\ last' = [NoEffect EXCEPT
                   !.op = "borrow", !.call = c, !.arg = calls[c].input,
                   !.hid = _widget.key, !.released = _widget.leased,
                   !.borrowed = <<calls[c].group, resource(calls[c].input)>>,
                   !.fwd = initialLayout,
                   !.early = IF last.op = "layout" /\ c \in last.early
                             THEN {c} ELSE {},
                   !.cancelled = JustCancelled(c),
                   !.attached = Carried(c, "attached"),
                   !.held = Carried(c, "held"),
                   !.hidden = Carried(c, "hidden")]
    /\ UNCHANGED <<input, group, dimension, editorMemento, disposed>>

\* setInput without the null check on the result of input.resolve
afterResolve_unchecked(model) == "setModel"

\* what setInput does with the result of input.resolve: the prompt when it
\* is null, the model install otherwise
afterResolve(model) == IF model = "null" THEN "prompt" ELSE "setModel"

\* setInput, from the result of input.resolve to `await widget.setModel(...)`,
\* or to the return that follows the prompt
setInputResolved(c, model) ==
    /\ c \in 1..Len(calls)
    /\ calls[c].pc = "resolve"
    /\ IF afterResolve(model) = "prompt"
       THEN /\ calls' = Returned(calls, c)
            /\ last' = [NoEffect EXCEPT
                           !.op = "noEditor", !.call = c, !.arg = calls[c].input,
                           !.model = model, !.prompts = 1,
                           !.attached = Carried(c, "attached"),
                           !.cancelled = JustCancelled(c),
                           !.superseded = JustSuperseded(c)]
            /\ UNCHANGED _widget
       ELSE LET ld == loadTextEditorViewState(calls[c].input)
            IN  /\ _widget' = widgetSetModel(_widget, resource(calls[c].input),
                                             ld.state)
                /\ calls' = [calls EXCEPT ![c].pc = "setModel"]
                /\ last' = [NoEffect EXCEPT
                               !.op = "setModel", !.call = c, !.arg = calls[c].input,
                               !.model = model,
                               !.read = ld.read, !.vs = ld.state,
                               !.installed = _widget.key,
                               !.cancelled = JustCancelled(c),
                               !.superseded = JustSuperseded(c),
                               !.held = Carried(c, "held"),
                               !.hidden = Carried(c, "hidden")]
    /\ UNCHANGED <<input, group, dimension, _widgetDisposableStore,
                   editorMemento, leases, disposed>>

\* setInput, from the return of widget.setModel to its end
setInputWire(c) ==
    /\ c \in 1..Len(calls)
    /\ calls[c].pc = "setModel"
    /\ _widgetDisposableStore' =
          _widgetDisposableStore \o <<(<<"focus", _widget.key>>)>>
             \o (IF isEditorPart THEN <<(<<"drop", _widget.key>>)>> ELSE <<>>)
    /\ calls' = Returned(calls, c)
    /\ last' = [NoEffect EXCEPT
                   !.op = "wire", !.call = c, !.arg = calls[c].input,
                   !.subs = IF isEditorPart THEN 2 ELSE 1,
                   !.cancelled = JustCancelled(c),
                   !.superseded = JustSuperseded(c)]
    /\ UNCHANGED <<input, group, _widget, dimension, editorMemento, leases,
                   disposed>>

\* clearInput()
clearInput ==
    /\ ~ disposed
    /\ input # NoInput
    /\ _widget' = hideBorrowed.widget
    /\ leases' = hideBorrowed.leases
    /\ input' = NoInput
    /\ last' = [NoEffect EXCEPT !.op = "clearInput", !.hid = _widget.key,
                   !.released = _widget.leased,
                   !.resolving = Resolving]
    /\ UNCHANGED <<group, dimension, _widgetDisposableStore,
                   editorMemento, calls, disposed>>

\* onWillHide telling the widget whether or not there is an input
hidesOnWillHide_noInputTest == _widget # NoWidget

\* `if (this.input && this._widget.value)`: whether onWillHide tells the widget
hidesOnWillHide == input # NoInput /\ _widget # NoWidget

\* onWillHide()
onWillHide ==
    /\ ~ disposed
    /\ editorMemento' = saveCurrent.memento
    /\ _widget' = IF hidesOnWillHide THEN hideBorrowed.widget ELSE _widget
    /\ leases' = IF hidesOnWillHide THEN hideBorrowed.leases ELSE leases
    /\ last' = [NoEffect EXCEPT !.op = "onWillHide", !.wrote = saveCurrent.wrote,
                   !.hid = IF hidesOnWillHide THEN _widget.key ELSE NoKey,
                   !.released = hidesOnWillHide /\ _widget.leased]
    /\ UNCHANGED <<input, group, dimension, _widgetDisposableStore,
                   calls, disposed>>

\* the closing editor compared with the current input by resource, not identity
closeSaves_byResource(editor) ==
    /\ isNotebookEditorInput(editor)
    /\ input # NoInput
    /\ resource(editor) = resource(input)

\* whether onWillCloseEditorInGroup(e) saves the view state of e.editor
closeSaves(editor) == isNotebookEditorInput(editor) /\ editor = input

\* onWillCloseEditorInGroup(e), which the group the pane is in calls
onWillCloseEditorInGroup(editor) ==
    /\ ~ disposed
    /\ group # NoGroup
    /\ LET sv == IF closeSaves(editor)
                 THEN saveEditorViewState(editor)
                 ELSE [memento |-> editorMemento, wrote |-> NoKey]
       IN  /\ editorMemento' = sv.memento
           /\ last' = [NoEffect EXCEPT !.op = "onWillCloseEditor",
                          !.wrote = sv.wrote]
    /\ UNCHANGED <<input, group, _widget, dimension, _widgetDisposableStore,
                   leases, calls, disposed>>

\* layout without the check of the widget's document against the input
layoutForwards_unguarded == _widget # NoWidget /\ isNotebookEditorInput(input)

\* whether layout(dimension) passes the dimension on to the widget
layoutForwards ==
    /\ _widget # NoWidget
    /\ isNotebookEditorInput(input)
    /\ ~ (/\ resource(input) # _widget.viewModel
          /\ _widget.viewModel # NoUri)

\* layout(dimension)
layout(d) ==
    /\ ~ disposed
    /\ dimension' = d
    /\ last' = [NoEffect EXCEPT !.op = "layout", !.size = d,
                   !.fwd = IF layoutForwards THEN d ELSE NoDim,
                   !.early = IF dimension = NoDim
                             THEN {n \in 1..Len(calls) : calls[n].pc = "super"}
                             ELSE {}]
    /\ UNCHANGED <<input, group, _widget, _widgetDisposableStore,
                   editorMemento, leases, calls, disposed>>

\* saveState()
saveState ==
    /\ ~ disposed
    /\ editorMemento' = saveCurrent.memento
    /\ last' = [NoEffect EXCEPT !.op = "saveState", !.wrote = saveCurrent.wrote,
                   !.again = (last.op = "saveState")]
    /\ UNCHANGED <<input, group, _widget, dimension, _widgetDisposableStore,
                   leases, calls, disposed>>

\* the user scrolls or selects in the borrowed widget while it is shown: its
\* view state changes
widgetScroll(b) ==
    /\ ~ disposed
    /\ _widget.viewModel # NoUri
    /\ _widget.leased
    /\ _widget.viewState # b
    /\ _widget' = [_widget EXCEPT !.viewState = b]
    /\ last' = [NoEffect EXCEPT !.op = "scroll"]
    /\ UNCHANGED <<input, group, dimension, _widgetDisposableStore,
                   editorMemento, leases, calls, disposed>>

\* the caller signals the cancellation token it gave a setInput call
cancelToken(c) ==
    /\ ~ disposed
    /\ c \in 1..Len(calls)
    /\ calls[c].pc \in {"super", "resolve"}
    /\ last' = [NoEffect EXCEPT !.op = "cancel", !.call = c]
    /\ UNCHANGED <<input, group, _widget, dimension, _widgetDisposableStore,
                   editorMemento, leases, calls, disposed>>

\* dispose(): only super.dispose(), which disposes what was registered with
\* _register (the group listener among it); the borrow value and the
\* per-widget subscriptions are not registered and stay as they are.  The
\* host calls no method of a disposed pane and its group listener is gone,
\* but the setInput calls in flight still resume
dispose ==
    /\ ~ disposed
    /\ disposed' = TRUE
    /\ last' = [NoEffect EXCEPT !.op = "dispose"]
    /\ UNCHANGED <<input, group, _widget, dimension, _widgetDisposableStore,
                   editorMemento, leases, calls>>

Next ==
    \/ \E g \in Groups : setEditorVisible(g)
    \/ \E i \in OpenedInputs : setInput(i)
    \/ \E c \in 1..MaxCalls, pw \in PoolWidgets : setInputBorrow(c, pw)
    \/ \E c \in 1..MaxCalls, model \in {"model", "null"} : setInputResolved(c, model)
    \/ \E c \in 1..MaxCalls : setInputWire(c)
    \/ clearInput
    \/ onWillHide
    \/ \E e \in NotebookInputs \cup OtherInputs : onWillCloseEditorInGroup(e)
    \/ \E d \in Dims : layout(d)
    \/ saveState
    \/ \E b \in Blobs : widgetScroll(b)
    \/ \E c \in 1..MaxCalls : cancelToken(c)
    \/ dispose

Spec == Init /\ [][Next]_vars

\* ================================================================ claims

\* C1: a setInput call that was awaiting input.resolve when another setInput
\* or clearInput was issued does nothing to the widget and does not touch the
\* memento when its resolution then completes with a model: no setModel, no
\* view state load, no subscription.
C1_SupersededCallDoesNothing ==
    (last.superseded /\ last.model = "model") =>
        /\ last.installed = NoKey
        /\ last.read = NoKey
        /\ last.subs = 0

\* C2: once the token of a setInput call is signalled, the call does nothing
\* more: it hides and borrows no widget, installs no model, wires no
\* subscription and shows no prompt.
C2_CancelledCallDoesNothing ==
    last.cancelled =>
        /\ last.hid = NoKey
        /\ last.borrowed = NoKey
        /\ last.installed = NoKey
        /\ last.subs = 0
        /\ last.prompts = 0

\* C3: a setInput issued while the pane shows a notebook input with a borrowed
\* widget writes that input's view state under (group, its resource) in its
\* first step, where nothing is hidden, borrowed or installed yet; the step
\* that borrows comes after it, hides the outgoing widget before it retrieves
\* the new one, and installs nothing.
C3_SaveBeforeHideBeforeBorrow ==
    /\ (last.op = "setInput" /\ last.prev # NoKey) =>
          /\ last.wrote = last.prev
          /\ editorMemento[last.prev] = getEditorViewState(_widget)
          /\ last.hid = NoKey /\ last.borrowed = NoKey /\ last.installed = NoKey
          /\ calls[last.call].pc = "super"
    /\ last.op = "borrow" =>
          /\ last.borrowed = _widget.key
          /\ _widget.leased /\ leases = 1
          /\ last.wrote = NoKey /\ last.installed = NoKey
          /\ calls[last.call].pc = "resolve"

\* C3 witness: the step that borrows for a new input hid a leased widget of
\* another resource whose view state, not the initial one, is in the memento.
C3_Witness ==
    /\ last.op = "borrow"
    /\ last.released
    /\ last.hid # last.borrowed
    /\ editorMemento[last.hid] \in 1..MaxBlob

\* C4: the view state the memento holds for (group, resource) when setInput is
\* issued for that resource is the one setModel is given, when nothing but
\* that call's own steps happen in between.
C4_RoundTrip ==
    (last.op = "setModel" /\ last.held # NoState) => last.vs = last.held

\* C5: onWillHide, then setInput with the same input, then its resolution:
\* setModel is given the view state onWillHide wrote.
C5_HideThenSameInput ==
    (last.op = "setModel" /\ last.hidden # NoState) => last.vs = last.hidden

\* C5 witness: such a setModel, with a view state that is not the initial one.
C5_Witness ==
    /\ last.op = "setModel"
    /\ last.hidden \in 1..MaxBlob
    /\ last.vs = last.hidden

\* C6 as claimed: layout passes the dimension on only when the widget's
\* document is the current input's resource.
C6_ForwardsOnlyOnSameDocument ==
    (last.op = "layout" /\ last.fwd # NoDim) =>
        /\ _widget # NoWidget
        /\ input # NoInput
        /\ _widget.viewModel = resource(input)

\* C6 amended: layout passes the dimension on exactly when there is a widget
\* and a notebook input and the widget has no document or the document of the
\* current input; with a document of another resource it does not.
C6_LayoutGuard ==
    last.op = "layout" =>
        /\ last.fwd # NoDim <=>
              /\ _widget # NoWidget
              /\ input # NoInput
              /\ _widget.viewModel \in {NoUri, resource(input)}
        /\ last.fwd \in {NoDim, dimension}

\* C6 witness: a layout that was not passed on to a widget showing another
\* document than the current input's.
C6_Witness ==
    /\ last.op = "layout"
    /\ last.fwd = NoDim
    /\ _widget # NoWidget /\ input # NoInput
    /\ _widget.viewModel \notin {NoUri, resource(input)}

\* C7: onWillCloseEditorInGroup(e) leaves the memento as it is unless e.editor
\* is the current input, and then changes it at most under (group, resource of
\* the current input).
C7_CloseWritesOnlyForCurrent ==
    [][\A e \in NotebookInputs \cup OtherInputs :
          onWillCloseEditorInGroup(e) =>
              IF e = input
              THEN \A k \in Keys : k # <<group, resource(input)>> =>
                                      editorMemento'[k] = editorMemento[k]
              ELSE editorMemento' = editorMemento /\ last'.wrote = NoKey]_vars

\* C7 witness: the close of an editor that is not the current input left the
\* memento alone, while the widget's view state is not the one the memento
\* holds for the current input.
C7_Witness ==
    /\ last.op = "onWillCloseEditor"
    /\ last.wrote = NoKey
    /\ input = "A" /\ group # NoGroup
    /\ _widget # NoWidget
    /\ editorMemento[<<group, "u1">>] # getEditorViewState(_widget)

\* C8: when input.resolve returns null, setInput shows one prompt, returns,
\* and neither loads a view state nor calls setModel.
C8_NullResolutionPrompts ==
    [][last'.model = "null" =>
          /\ last'.prompts = 1
          /\ last'.installed = NoKey
          /\ last'.read = NoKey
          /\ _widget' = _widget
          /\ editorMemento' = editorMemento
          /\ Len(calls') = Len(calls) - 1]_vars

\* C8 witness: a null resolution, with a view state in the memento that a
\* load would have found.
C8_Witness ==
    /\ last.model = "null"
    /\ editorMemento[<<group, resource(last.arg)>>] \in 1..MaxBlob

\* C9: after a setInput issued in state Attached resolves to null the pane has
\* no input and no leased widget.
C9_NullResolutionIsEmpty ==
    (last.model = "null" /\ last.attached) =>
        /\ input = NoInput
        /\ ~ _widget.leased

\* C10: the pool never counts more than one widget retrieved and not hidden.
C10_OneLease == leases <= 1

\* C10 witness: with two setInput calls in flight, one of them borrows and
\* releases the widget the other borrowed.
C10_Witness ==
    /\ last.op = "borrow"
    /\ last.released
    /\ Len(calls) = 2
    /\ \A n \in 1..2 : calls[n].pc = "resolve"

\* C11: when dispose has run, no widget the pane retrieved is still counted
\* by the pool as retrieved and not hidden.
C11_DisposeReleases ==
    last.op = "dispose" => (leases = 0 /\ ~ _widget.leased)

\* C12: while the pane has no input, no widget is shown in it and no document
\* is installed in a widget; also not by a setInput call that clearInput
\* overtook while it awaited input.resolve.
C12_NoWidgetWithoutInput ==
    input = NoInput => (~ _widget.leased /\ last.installed = NoKey)

\* C13: a saveState that follows a saveState changes nothing, neither the
\* memento nor the input nor the borrowed widget; and saveState writes only
\* when there is a current notebook input, under (group, its resource).
C13_SaveStateIdempotent ==
    [][last'.op = "saveState" =>
          /\ input' = input
          /\ _widget' = _widget
          /\ IF last'.wrote # NoKey
             THEN /\ isNotebookEditorInput(input)
                  /\ last'.wrote = <<group, resource(input)>>
                  /\ editorMemento'[last'.wrote] = getEditorViewState(_widget)
                  /\ \A k \in Keys : k # last'.wrote =>
                                          editorMemento'[k] = editorMemento[k]
             ELSE editorMemento' = editorMemento
          /\ last.op = "saveState" =>
                (editorMemento' = editorMemento /\ last'.wrote = last.wrote)]_vars

\* C13 witness: the second of two saveState in a row, both of which wrote a
\* view state that is not the initial one.
C13_Witness ==
    /\ last.op = "saveState"
    /\ last.again
    /\ last.wrote # NoKey
    /\ editorMemento[last.wrote] \in 1..MaxBlob

C15_ClearInputWritesNothing ==
    [][last'.op = "clearInput" =>
          /\ editorMemento' = editorMemento
          /\ last'.wrote = NoKey
          /\ input' = NoInput
          /\ ~ _widget'.leased
          /\ _widget'.key = _widget.key
          /\ leases' = IF _widget.leased THEN leases - 1 ELSE leases]_vars

\* C15 witness: a clearInput that hid a shown widget whose view state is not
\* the one the memento holds under the widget's key.
C15_Witness ==
    /\ last.op = "clearInput"
    /\ last.released
    /\ input = NoInput
    /\ editorMemento[last.hid] # getEditorViewState(_widget)

\* the methods of the pane the host calls, by the name the history gives them
ControllerOps == {"clearInput", "layout", "onWillHide", "onWillCloseEditor", "saveState"}

\* C16: setInput is suspended only at `await input.resolve`: while a call is
\* between its entry and its borrow, or between its setModel and its wiring,
\* no other method of the pane and no other setInput has run.
C16_OnlyResolveSuspends ==
    \A c \in 1..Len(calls) :
        calls[c].pc \in {"super", "setModel"} =>
            /\ last.op \notin ControllerOps
            /\ last.op = "setInput" => last.call = c

\* C17: when no setInput call is between its entry and its borrow, and the
\* pane has an input and a widget, the widget was retrieved for the resource
\* of the current input, in one of the pane's groups.
C17_WidgetKeyMatchesInput ==
    (/\ \A n \in 1..Len(calls) : calls[n].pc # "super"
     /\ input # NoInput
     /\ _widget # NoWidget)
        => (_widget.key[2] = resource(input) /\ _widget.key[1] \in Groups)

\* C17 witness: a call whose input another setInput has replaced has installed
\* its document, which is not the current input's, and no call is between
\* its entry and its borrow.
C17_Witness ==
    /\ last.op = "setModel"
    /\ input # NoInput
    /\ _widget # NoWidget
    /\ resource(last.arg) # resource(input)
    /\ \A n \in 1..Len(calls) : calls[n].pc # "super"

focusSubscriptions ==
    {n \in 1..Len(_widgetDisposableStore) : _widgetDisposableStore[n][1] = "focus"}

\* C19: the store holds at most one focus subscription, it is one on the
\* borrowed widget, and none is left when clearInput has hidden the widget.
C19_OneFocusSubscription ==
    /\ Cardinality(focusSubscriptions) <= 1
    /\ \A n \in focusSubscriptions : _widgetDisposableStore[n][2] = _widget.key
    /\ last.op = "clearInput" => focusSubscriptions = {}

\* C20: a view state written under (group, U) is the view state of a widget
\* whose document is U.
C20_SavedStateIsOfItsDocument ==
    last.wrote # NoKey => _widget.viewModel = last.wrote[2]

====
